---------------------------- MODULE Spec2Model ----------------------------
(***************************************************************************)
(* Model of the action handlers of src/actions/actions.py.                 *)
(*                                                                         *)
(* Every handler is a sequential script.  One behaviour of the model is    *)
(* one invocation of one handler: Init picks the handler, its arguments,   *)
(* the files on disk and the state of the remote service; each action is   *)
(* one statement (or one `with` block, or one HTTP call) of the handler.   *)
(* An exception that no handler of the code catches ends the invocation    *)
(* in pc = "raised".                                                       *)
(***************************************************************************)
EXTENDS Integers, Sequences, FiniteSets, TLC

VARIABLES
    handler,      \* the function invoked
    pc,           \* position in the handler; "done" / "raised" when it ended
    args,         \* the handler's arguments
    disk,         \* environment variables and files the handler reads
    service,      \* state of the remote assistant service
    requests,     \* HTTP requests issued so far, in order; `id` is the
                  \* identifier a request carries in its path or its body
    openHandles,  \* file objects opened and not yet closed: <<path, n>>
    locals,       \* the handler's local variables, named as in the code
    result        \* the return value, or the exception that escaped

vars == <<handler, pc, args, disk, service, requests, openHandles, locals, result>>

-----------------------------------------------------------------------------
(* Bounds of the model *)

MaxEntries == 2       \* entries of ActionPackageMapping
MaxFiles == 2         \* entries of agent["files"]
MaxThreads == 3       \* threads the service lists
MaxMessages == 2      \* messages of a thread's history

-----------------------------------------------------------------------------
(* Shared helpers *)

NoResult == [kind |-> "running", exc |-> "", at |-> ""]

Returned(v) == [kind |-> "returned", value |-> v]

Raised(exc, at) == [kind |-> "raised", exc |-> exc, at |-> at]

Terminated == pc \in {"done", "raised"}

\* An exception leaves the handler: nothing catches it.
Raise(exc) ==
    /\ pc' = "raised"
    /\ result' = Raised(exc, pc)

SeqsUpTo(S, n) == UNION {[1..k -> S] : k \in 0..n}

-----------------------------------------------------------------------------
(* get_actions: src/actions/actions.py lines 60-93 *)

Names == {"Thread Monitor", "Mailer"}
Paths == {"/p1", "/p2"}
Ports == {8080, 8081}

\* One entry of config["ActionPackageMapping"].
Mappings == [name : Names, path : Paths, actionServerPort : Ports]

\* What <path>/metadata.json holds: no file, text that is not JSON, a JSON
\* object, or JSON of another type (an array).
MetadataKinds == {"missing", "malformed", "object", "array"}

\* What <home>/sema4ai-desktop/config.json holds.
ConfigFiles ==
    {[kind |-> "missing", has_mapping |-> FALSE, ActionPackageMapping |-> <<>>],
     [kind |-> "malformed", has_mapping |-> FALSE, ActionPackageMapping |-> <<>>],
     [kind |-> "json", has_mapping |-> FALSE, ActionPackageMapping |-> <<>>]}
    \cup {[kind |-> "json", has_mapping |-> TRUE, ActionPackageMapping |-> m] :
            m \in SeqsUpTo(Mappings, MaxEntries)}

\* open(path): the file exists.
CanOpen(kind) == kind # "missing"

\* A slip: a file that is not JSON is taken for a document.
JsonParsesAnything(kind) == kind # "missing"

\* json.loads(f.read()) of a metadata file: the parsed document, which is
\* the document of that path.
JsonParses(kind) == kind \in {"object", "array"}

json_loads(path, kind) == [type |-> kind, of |-> path]

\* ActionPackage(...) is a pydantic model: api_spec must be a dict.
ActionPackageValid(api_spec) == api_spec.type = "object"

ActionPackage(action_mapping, api_spec) ==
    [name |-> action_mapping.name,
     port |-> action_mapping.actionServerPort,
     api_spec |-> api_spec]

\* The names of HARDCODED_INTERNAL_ACTIONS, lines 50-57
HardcodedInternalNames ==
    {"Sema4 Desktop Action Getter", "Thread Monitor", "Agent Deployer", "Retreival"}

\* A slip: the filter reads the hardcoded list, not the caller's.
IsInternalHardcoded(action_mapping, names) ==
    action_mapping.name \in HardcodedInternalNames

\* action_mapping["name"] in internal_actions.names
IsInternal(action_mapping, names) == action_mapping.name \in names

InitGetActions ==
    /\ handler = "get_actions"
    /\ pc = "ga_environ"
    /\ args \in [internal_actions : SUBSET Names]
    /\ disk \in [home_set : BOOLEAN, config : ConfigFiles,
                 metadata : [Paths -> MetadataKinds]]
    /\ service = <<>>
    /\ requests = <<>>
    /\ openHandles = {}
    /\ locals = [config |-> <<>>, actions |-> <<>>, i |-> 1,
                 api_spec |-> [type |-> "", of |-> ""]]
    /\ result = NoResult

\* line 74: os.environ["ROBOCORP_HOME"]
GA_Environ ==
    /\ handler = "get_actions" /\ pc = "ga_environ"
    /\ IF disk.home_set
         THEN pc' = "ga_open_config" /\ UNCHANGED result
         ELSE Raise("KeyError")
    /\ UNCHANGED <<handler, args, disk, service, requests, openHandles, locals>>

\* line 77: open(config.json)
GA_OpenConfig ==
    /\ handler = "get_actions" /\ pc = "ga_open_config"
    /\ IF CanOpen(disk.config.kind)
         THEN /\ openHandles' = openHandles \cup {<<"config.json", 0>>}
              /\ pc' = "ga_read_config"
              /\ UNCHANGED result
         ELSE Raise("FileNotFoundError") /\ UNCHANGED openHandles
    /\ UNCHANGED <<handler, args, disk, service, requests, locals>>

\* lines 78-79: the body of the `with`, which closes f however it is left
GA_ReadConfig ==
    /\ handler = "get_actions" /\ pc = "ga_read_config"
    /\ openHandles' = openHandles \ {<<"config.json", 0>>}
    /\ IF disk.config.kind = "json"
         THEN /\ locals' = [locals EXCEPT !.config = disk.config,
                                          !.actions = <<>>, !.i = 1]
              /\ pc' = "ga_for"
              /\ UNCHANGED result
         ELSE Raise("JSONDecodeError") /\ UNCHANGED locals
    /\ UNCHANGED <<handler, args, disk, service, requests>>

\* line 80: for action_mapping in config["ActionPackageMapping"]
GA_For ==
    /\ handler = "get_actions" /\ pc = "ga_for"
    /\ IF ~locals.config.has_mapping
         THEN Raise("KeyError")
         ELSE /\ pc' = IF locals.i <= Len(locals.config.ActionPackageMapping)
                         THEN "ga_open_metadata" ELSE "ga_return"
              /\ UNCHANGED result
    /\ UNCHANGED <<handler, args, disk, service, requests, openHandles, locals>>

action_mapping == locals.config.ActionPackageMapping[locals.i]

\* lines 81-82: open(f"{action_path}/metadata.json")
GA_OpenMetadata ==
    /\ handler = "get_actions" /\ pc = "ga_open_metadata"
    /\ IF CanOpen(disk.metadata[action_mapping.path])
         THEN /\ openHandles' = openHandles \cup {<<action_mapping.path, locals.i>>}
              /\ pc' = "ga_read_metadata"
              /\ UNCHANGED result
         ELSE Raise("FileNotFoundError") /\ UNCHANGED openHandles
    /\ UNCHANGED <<handler, args, disk, service, requests, locals>>

\* line 83: the body of the `with`, which closes f however it is left
GA_ReadMetadata ==
    /\ handler = "get_actions" /\ pc = "ga_read_metadata"
    /\ openHandles' = openHandles \ {<<action_mapping.path, locals.i>>}
    /\ IF JsonParses(disk.metadata[action_mapping.path])
         THEN /\ locals' = [locals EXCEPT !.api_spec =
                    json_loads(action_mapping.path,
                               disk.metadata[action_mapping.path])]
              /\ pc' = "ga_filter"
              /\ UNCHANGED result
         ELSE Raise("JSONDecodeError") /\ UNCHANGED locals
    /\ UNCHANGED <<handler, args, disk, service, requests>>

\* lines 84-92: skip an internal action, append any other
GA_Filter ==
    /\ handler = "get_actions" /\ pc = "ga_filter"
    /\ IF IsInternal(action_mapping, args.internal_actions)
         THEN /\ locals' = [locals EXCEPT !.i = @ + 1]
              /\ pc' = "ga_for"
              /\ UNCHANGED result
         ELSE IF ActionPackageValid(locals.api_spec)
           THEN /\ locals' = [locals EXCEPT
                      !.actions = Append(@, ActionPackage(action_mapping,
                                                          locals.api_spec)),
                      !.i = @ + 1]
                /\ pc' = "ga_for"
                /\ UNCHANGED result
           ELSE Raise("ValidationError") /\ UNCHANGED locals
    /\ UNCHANGED <<handler, args, disk, service, requests, openHandles>>

\* line 93
GA_Return ==
    /\ handler = "get_actions" /\ pc = "ga_return"
    /\ pc' = "done"
    /\ result' = Returned(locals.actions)
    /\ UNCHANGED <<handler, args, disk, service, requests, openHandles, locals>>

GetActionsNext ==
    \/ GA_Environ
    \/ GA_OpenConfig
    \/ GA_ReadConfig
    \/ GA_For
    \/ GA_OpenMetadata
    \/ GA_ReadMetadata
    \/ GA_Filter
    \/ GA_Return

-----------------------------------------------------------------------------
(* Claims about get_actions *)

Mapping == disk.config.ActionPackageMapping

MetadataOf(e) == disk.metadata[e.path]

\* The registry as the claim describes a well-formed one: a config.json
\* with an ActionPackageMapping list, and a readable, parseable
\* metadata.json for each entry.
RegistryParses ==
    /\ disk.home_set
    /\ disk.config.kind = "json"
    /\ disk.config.has_mapping
    /\ \A i \in 1..Len(Mapping) : MetadataOf(Mapping[i]) \in {"object", "array"}

NotExcluded(e) == e.name \notin args.internal_actions

\* The registry entries minus the exclusion set, in registry order.
RegistryMinusExcluded ==
    LET kept == SelectSeq(Mapping, NotExcluded)
    IN  [i \in 1..Len(kept) |->
            [name |-> kept[i].name,
             port |-> kept[i].actionServerPort,
             api_spec |-> [type |-> MetadataOf(kept[i]), of |-> kept[i].path]]]

ReturnsRegistryMinusExcluded ==
    /\ result.kind = "returned"
    /\ result.value = RegistryMinusExcluded
    /\ \A i \in 1..Len(result.value) :
          result.value[i].name \notin args.internal_actions
    /\ \A i \in 1..Len(Mapping) :
          NotExcluded(Mapping[i]) =>
              \E j \in 1..Len(result.value) :
                  result.value[j].name = Mapping[i].name

\* C1 as stated: for every exclusion set and every registry whose config
\* has a mapping list and whose metadata files are all readable and
\* parseable, get_actions returns exactly the entries whose name is not
\* excluded, in registry order, as {name, port, api_spec}.
C1_AsStated ==
    (handler = "get_actions" /\ Terminated /\ RegistryParses)
        => ReturnsRegistryMinusExcluded

\* C1 amended: the same, for registries in which the metadata document of
\* every entry that is not excluded is moreover a JSON object (api_spec is
\* declared a dict, and ActionPackage refuses any other document).
C1_ExactlyRegistryMinusExcluded ==
    (/\ handler = "get_actions" /\ Terminated /\ RegistryParses
     /\ \A i \in 1..Len(Mapping) :
           NotExcluded(Mapping[i]) => MetadataOf(Mapping[i]) = "object")
        => ReturnsRegistryMinusExcluded

C1_Witness ==
    /\ handler = "get_actions" /\ pc = "done" /\ RegistryParses
    /\ Len(Mapping) = 2
    /\ ~NotExcluded(Mapping[1]) /\ NotExcluded(Mapping[2])
    /\ Len(result.value) = 1

\* Some file of the registry is missing or is not JSON: config.json, or the
\* metadata.json of any entry, excluded or not.
RegistryBroken ==
    \/ disk.config.kind \in {"missing", "malformed"}
    \/ /\ disk.config.kind = "json" /\ disk.config.has_mapping
       /\ \E i \in 1..Len(Mapping) :
             MetadataOf(Mapping[i]) \in {"missing", "malformed"}

\* C2: with a missing or malformed config.json, or a missing or malformed
\* metadata.json of any one entry (an excluded one too), get_actions never
\* returns a list, partial or empty: it ends with an error.
C2_AllOrNothing ==
    (handler = "get_actions" /\ RegistryBroken)
        => /\ result.kind # "returned"
           /\ Terminated => result.kind = "raised"

C2_Witness ==
    /\ handler = "get_actions" /\ pc = "raised" /\ disk.home_set
    /\ disk.config.kind = "json" /\ Len(Mapping) = 2
    /\ MetadataOf(Mapping[1]) = "object" /\ NotExcluded(Mapping[1])
    /\ MetadataOf(Mapping[2]) = "malformed" /\ ~NotExcluded(Mapping[2])
    /\ Len(locals.actions) = 1

-----------------------------------------------------------------------------
(* deploy_agent and deploy_agent_to_desktop: lines 96-278 *)

\* A piece of text: a string of the caller, or what a file holds.
Literal(s) == [from |-> "literal", text |-> s]
FileText(path) == [from |-> "file", text |-> path]

\* What a prompt string names on disk: no file, a file that cannot be
\* opened (a directory, no permission), a file that is not text, a text
\* file.
TextKinds == {"missing", "denied", "undecodable", "text"}

\* What a path of agent["files"] names on disk.
UploadKinds == {"missing", "file"}
UploadPaths == {"a.pdf", "notes.md"}

\* The exception of open(path), "" when it opens.
OpenError(kind) ==
    CASE kind = "missing" -> "FileNotFoundError"
      [] kind = "denied"  -> "PermissionError"
      [] OTHER            -> ""

\* The exception of file.read() in text mode, "" when it reads.
ReadError(kind) == IF kind = "undecodable" THEN "UnicodeDecodeError" ELSE ""

IsOSError(exc) == exc \in {"OSError", "FileNotFoundError", "PermissionError"}

\* A slip: except FileNotFoundError alone.
SystemPromptCatchesNotFoundOnly(exc) == exc = "FileNotFoundError"

\* line 138: except (FileNotFoundError, OSError)
SystemPromptCatches(exc) == exc = "FileNotFoundError" \/ IsOSError(exc)

\* line 142 stands in no try block
RetrievalPromptCatches(exc) == FALSE

\* str.title() of the tool names of the model
Title(t) == CASE t = "search" -> "Search" [] t = "ddg_search" -> "Ddg_Search"

\* lines 216-230
create_action_server_config(action_name, port) ==
    [kind |-> "dict",
     type |-> "action_server_by_sema4ai",
     name |-> "Action Server by Sema4.ai",
     config |-> [url |-> <<"http://localhost:", port>>, api_key |-> "APIKEY",
                 name |-> action_name, isBundled |-> "false"]]

StrTool(t) == [kind |-> "str", type |-> t, name |-> t, config |-> [name |-> t]]

\* lines 148-151: a dict passes through, a string is expanded
NormalizeTool(t) ==
    IF t.kind = "dict" THEN t
    ELSE [kind |-> "dict", type |-> t.type, name |-> Title(t.type),
          config |-> [name |-> Title(t.type)]]

TemplateTools == <<StrTool("search"), create_action_server_config("Mailer", 8080)>>

\* The agent dict deploy_agent is given.
Agents ==
    [name : {"Tutor"}, description : {"A tutor"}, model : {"GPT 4o"},
     system_prompt : {"runbook.md"}, retrieval_prompt : {"retrieval.md"},
     has_tools : BOOLEAN, tools : {TemplateTools},
     has_files : BOOLEAN, files : SeqsUpTo(UploadPaths, MaxFiles)]

\* An agent without "files" is one agent, whatever the model keeps there.
AgentInputs == {a \in Agents : ~a.has_files => a.files = <<>>}

\* What the remote service answers.
AssistantsOutcomes == {"created", "no_id", "not_json", "connection_error"}
IngestOutcomes == {"ingested", "http_error", "connection_error"}
ThreadsOutcomes == {"created", "no_id", "not_json", "connection_error"}

\* The exception the code raises on an answer, "" when it goes on.
\* requests.post raises, json.loads raises, or the key is not there.
AnswerError(outcome) ==
    CASE outcome = "connection_error" -> "ConnectionError"
      [] outcome = "not_json"         -> "JSONDecodeError"
      [] outcome = "no_id"            -> "KeyError"
      [] OTHER                        -> ""

\* line 196: requests.post returns a response whatever its status, and the
\* code reads neither the status nor the body.
IngestError(outcome) ==
    IF outcome = "connection_error" THEN "ConnectionError" ELSE ""

NewAssistantId == "asst-1"
NewThreadId == "thread-1"

\* lines 153-166
AssistantPayload(agent, system_prompt, retrieval_prompt, tools) ==
    [name |-> agent.name,
     configurable |->
        [retrieval_description |-> retrieval_prompt,
         agent_type |-> agent.model,
         system_message |-> system_prompt,
         tools |-> tools,
         type |-> "agent",
         interrupt_before_action |-> FALSE,
         description |-> agent.description]]

\* line 168
AssistantsRequest(jsn) ==
    [method |-> "POST", path |-> "/assistants", id |-> "", body |-> jsn]

\* lines 184-201
IngestRequest(file_path, assistant_id) ==
    [method |-> "POST", path |-> "/ingest", id |-> assistant_id,
     body |-> file_path]

\* lines 204-209
ThreadsRequest(assistant_id) ==
    [method |-> "POST", path |-> "/threads", id |-> assistant_id,
     body |-> [name |-> "Welcome",
               starting_message |-> "Hi! How can I help you with today?"]]

Deploying == handler \in {"deploy_agent", "deploy_agent_to_desktop"}

DeployLocals ==
    [agent |-> <<>>, system_prompt |-> Literal(""), retrieval_prompt |-> Literal(""),
     tools |-> <<>>, assistant_id |-> "", thread_id |-> "", i |-> 1]

NoService == [assistants |-> {}, threads |-> {}, files |-> {}]

\* What template.yml holds: no file, text that is not YAML, a bundle.
TemplateKinds == {"missing", "malformed", "yaml"}

\* The tool_names argument: a JSON list of {tool_name, port}, or no JSON.
ToolNames ==
    {[json |-> TRUE, tools |-> <<[tool_name |-> "Mailer", port |-> 8081]>>],
     [json |-> FALSE, tools |-> <<>>]}

DiskOfDeploy ==
    [text : [{"runbook.md", "retrieval.md"} -> TextKinds],
     upload : [UploadPaths -> UploadKinds],
     template : TemplateKinds,
     template_agent : AgentInputs]

\* lines 264-271: the template's agent with the caller's name, description,
\* system prompt and tools
OverriddenAgent(agent, a) ==
    [agent EXCEPT !.name = a.name, !.description = a.description,
                  !.system_prompt = a.system_prompt,
                  !.has_tools = TRUE,
                  !.tools = [k \in 1..Len(a.tool_names.tools) |->
                        create_action_server_config(
                            a.tool_names.tools[k].tool_name,
                            a.tool_names.tools[k].port)]]

InitDeployAgentToDesktop ==
    /\ handler = "deploy_agent_to_desktop"
    /\ pc = "dd_open_template"
    /\ args \in [name : {"Tutor 2"}, description : {"Another tutor"},
                 system_prompt : {"runbook.md"}, tool_names : ToolNames]
    /\ disk \in {d \in DiskOfDeploy : ~d.template_agent.has_tools}
    /\ service = NoService
    /\ requests = <<>>
    /\ openHandles = {}
    /\ locals = DeployLocals
    /\ result = NoResult

\* line 263, line 106 of load_yaml_file: open(template.yml)
DD_OpenTemplate ==
    /\ handler = "deploy_agent_to_desktop" /\ pc = "dd_open_template"
    /\ IF CanOpen(disk.template)
         THEN /\ openHandles' = openHandles \cup {<<"template.yml", 0>>}
              /\ pc' = "dd_load_template"
              /\ UNCHANGED result
         ELSE Raise("FileNotFoundError") /\ UNCHANGED openHandles
    /\ UNCHANGED <<handler, args, disk, service, requests, locals>>

\* line 107: yaml.safe_load in the `with`, which closes the file; lines
\* 263-264: the first agent of the bundle
DD_LoadTemplate ==
    /\ handler = "deploy_agent_to_desktop" /\ pc = "dd_load_template"
    /\ openHandles' = openHandles \ {<<"template.yml", 0>>}
    /\ IF disk.template = "yaml"
         THEN /\ locals' = [locals EXCEPT !.agent = disk.template_agent]
              /\ pc' = "dd_override"
              /\ UNCHANGED result
         ELSE Raise("YAMLError") /\ UNCHANGED locals
    /\ UNCHANGED <<handler, args, disk, service, requests>>

\* lines 265-272: the overrides, json.loads(tool_names), and the call of
\* deploy_agent
DD_Override ==
    /\ handler = "deploy_agent_to_desktop" /\ pc = "dd_override"
    /\ IF args.tool_names.json
         THEN /\ locals' = [locals EXCEPT !.agent = OverriddenAgent(@, args)]
              /\ pc' = "d_open_system_prompt"
              /\ UNCHANGED result
         ELSE Raise("JSONDecodeError") /\ UNCHANGED locals
    /\ UNCHANGED <<handler, args, disk, service, requests, openHandles>>

\* lines 274-278: repr of the two identifiers
DD_Return ==
    /\ handler = "deploy_agent_to_desktop" /\ pc = "dd_return"
    /\ pc' = "done"
    /\ result' = Returned([repr |-> <<"assistant_id", locals.assistant_id,
                                      "thread_id", locals.thread_id>>])
    /\ UNCHANGED <<handler, args, disk, service, requests, openHandles, locals>>

InitDeployAgent ==
    /\ handler = "deploy_agent"
    /\ pc = "d_open_system_prompt"
    /\ args \in [agent : AgentInputs]
    /\ disk \in {d \in DiskOfDeploy :
                    d.template = "yaml" /\ d.template_agent = args.agent}
    /\ service = NoService
    /\ requests = <<>>
    /\ openHandles = {}
    /\ locals = [DeployLocals EXCEPT !.agent = args.agent]
    /\ result = NoResult

\* The file objects of line 184 (those of handle index >= 1) that no name
\* refers to any more, when `files` is bound anew or the frame is left.
Unreferenced(handles) == {h \in handles : h[2] >= 1}

\* No statement closes the file objects of line 184.  The interpreter closes
\* an unreferenced one when it collects it, which it may do at once
\* (reference counting) or not before the handler has ended.
Collect(handles, collected) ==
    IF collected THEN handles \ Unreferenced(handles) ELSE handles

\* An exception leaves deploy_agent (and deploy_agent_to_desktop, which
\* catches nothing): the frame is left.
DeployRaise(exc, handles) ==
    /\ Raise(exc)
    /\ \E collected \in BOOLEAN :
          openHandles' = Collect(handles, collected)

\* open() in read_text_file (line 120) for a prompt; `caught` says whether
\* an except clause around the call catches its exception.  A caught
\* exception leaves the string itself as the prompt.
OpenPrompt(field, path, caught, opened, skipped) ==
    LET exc == OpenError(disk.text[path]) IN
    IF exc = ""
      THEN /\ openHandles' = openHandles \cup {<<path, 0>>}
           /\ pc' = opened
           /\ UNCHANGED <<locals, result>>
      ELSE IF caught
        THEN /\ locals' = [locals EXCEPT ![field] = Literal(path)]
             /\ pc' = skipped
             /\ UNCHANGED <<openHandles, result>>
        ELSE DeployRaise(exc, openHandles) /\ UNCHANGED locals

\* file.read() in read_text_file (line 121), and the end of its `with`
ReadPrompt(field, path, caught, after) ==
    LET exc == ReadError(disk.text[path])
        closed == openHandles \ {<<path, 0>>} IN
    IF exc = ""
      THEN /\ locals' = [locals EXCEPT ![field] = FileText(path)]
           /\ openHandles' = closed
           /\ pc' = after
           /\ UNCHANGED result
      ELSE IF caught
        THEN /\ locals' = [locals EXCEPT ![field] = Literal(path)]
             /\ openHandles' = closed
             /\ pc' = after
             /\ UNCHANGED result
        ELSE DeployRaise(exc, closed) /\ UNCHANGED locals

\* lines 136-139
D_OpenSystemPrompt ==
    /\ Deploying /\ pc = "d_open_system_prompt"
    /\ OpenPrompt("system_prompt", locals.agent.system_prompt,
                  SystemPromptCatches(
                      OpenError(disk.text[locals.agent.system_prompt])),
                  "d_read_system_prompt", "d_open_retrieval_prompt")
    /\ UNCHANGED <<handler, args, disk, service, requests>>

D_ReadSystemPrompt ==
    /\ Deploying /\ pc = "d_read_system_prompt"
    /\ ReadPrompt("system_prompt", locals.agent.system_prompt,
                  SystemPromptCatches(
                      ReadError(disk.text[locals.agent.system_prompt])),
                  "d_open_retrieval_prompt")
    /\ UNCHANGED <<handler, args, disk, service, requests>>

\* line 142
D_OpenRetrievalPrompt ==
    /\ Deploying /\ pc = "d_open_retrieval_prompt"
    /\ OpenPrompt("retrieval_prompt", locals.agent.retrieval_prompt,
                  RetrievalPromptCatches(
                      OpenError(disk.text[locals.agent.retrieval_prompt])),
                  "d_read_retrieval_prompt", "d_tools")
    /\ UNCHANGED <<handler, args, disk, service, requests>>

D_ReadRetrievalPrompt ==
    /\ Deploying /\ pc = "d_read_retrieval_prompt"
    /\ ReadPrompt("retrieval_prompt", locals.agent.retrieval_prompt,
                  RetrievalPromptCatches(
                      ReadError(disk.text[locals.agent.retrieval_prompt])),
                  "d_tools")
    /\ UNCHANGED <<handler, args, disk, service, requests>>

\* lines 144-151
D_Tools ==
    /\ Deploying /\ pc = "d_tools"
    /\ locals' = [locals EXCEPT !.tools =
          IF locals.agent.has_tools
            THEN [k \in 1..Len(locals.agent.tools) |->
                    NormalizeTool(locals.agent.tools[k])]
            ELSE <<>>]
    /\ pc' = "d_post_assistants"
    /\ UNCHANGED <<handler, args, disk, service, requests, openHandles, result>>

\* lines 153-170: POST /assistants and the reading of its answer
D_PostAssistants ==
    /\ Deploying /\ pc = "d_post_assistants"
    /\ requests' = Append(requests,
          AssistantsRequest(AssistantPayload(locals.agent, locals.system_prompt,
                                             locals.retrieval_prompt, locals.tools)))
    /\ \E outcome \in AssistantsOutcomes :
          IF AnswerError(outcome) = ""
            THEN /\ service' = [service EXCEPT !.assistants = @ \cup {NewAssistantId}]
                 /\ locals' = [locals EXCEPT !.assistant_id = NewAssistantId, !.i = 1]
                 /\ pc' = "d_files"
                 /\ UNCHANGED <<openHandles, result>>
            ELSE /\ DeployRaise(AnswerError(outcome), openHandles)
                 /\ UNCHANGED <<service, locals>>
    /\ UNCHANGED <<handler, args, disk>>

\* lines 174 and 177: the head of the loop over agent["files"]
D_Files ==
    /\ Deploying /\ pc = "d_files"
    /\ pc' = IF locals.agent.has_files /\ locals.i <= Len(locals.agent.files)
               THEN "d_open_file" ELSE "d_post_threads"
    /\ UNCHANGED <<handler, args, disk, service, requests, openHandles, locals,
                   result>>

\* A slip: the loop variable is not used.
file_path_first == locals.agent.files[1]

file_path == locals.agent.files[locals.i]

\* line 184: open(file_path, "rb"), bound to `files`, which lets go of the
\* file object of the iteration before
D_OpenFile ==
    /\ Deploying /\ pc = "d_open_file"
    /\ IF OpenError(disk.upload[file_path]) = ""
         THEN /\ \E collected \in BOOLEAN :
                    openHandles' = Collect(openHandles, collected)
                                       \cup {<<file_path, locals.i>>}
              /\ pc' = "d_post_ingest"
              /\ UNCHANGED result
         ELSE DeployRaise(OpenError(disk.upload[file_path]), openHandles)
    /\ UNCHANGED <<handler, args, disk, service, requests, locals>>

\* lines 186-202: POST /ingest; the answer is printed, not read
D_PostIngest ==
    /\ Deploying /\ pc = "d_post_ingest"
    /\ requests' = Append(requests, IngestRequest(file_path, locals.assistant_id))
    /\ \E outcome \in IngestOutcomes :
          /\ service' = IF outcome = "ingested"
                          THEN [service EXCEPT !.files =
                                  @ \cup {<<locals.assistant_id, file_path>>}]
                          ELSE service
          /\ IF IngestError(outcome) = ""
               THEN /\ locals' = [locals EXCEPT !.i = @ + 1]
                    /\ pc' = "d_files"
                    /\ UNCHANGED <<openHandles, result>>
               ELSE /\ DeployRaise(IngestError(outcome), openHandles)
                    /\ UNCHANGED locals
    /\ UNCHANGED <<handler, args, disk>>

\* lines 204-211: POST /threads and the reading of its answer
D_PostThreads ==
    /\ Deploying /\ pc = "d_post_threads"
    /\ requests' = Append(requests, ThreadsRequest(locals.assistant_id))
    /\ \E outcome \in ThreadsOutcomes :
          IF AnswerError(outcome) = ""
            THEN /\ service' = [service EXCEPT !.threads =
                        @ \cup {[thread_id |-> NewThreadId,
                                 assistant_id |-> locals.assistant_id]}]
                 /\ locals' = [locals EXCEPT !.thread_id = NewThreadId]
                 /\ pc' = "d_return"
                 /\ UNCHANGED <<openHandles, result>>
            ELSE /\ DeployRaise(AnswerError(outcome), openHandles)
                 /\ UNCHANGED <<service, locals>>
    /\ UNCHANGED <<handler, args, disk>>

\* line 213: the frame of deploy_agent is left, to its caller
D_Return ==
    /\ Deploying /\ pc = "d_return"
    /\ IF handler = "deploy_agent"
         THEN /\ pc' = "done"
              /\ result' = Returned(<<locals.assistant_id, locals.thread_id>>)
         ELSE /\ pc' = "dd_return"
              /\ UNCHANGED result
    /\ \E collected \in BOOLEAN :
          openHandles' = Collect(openHandles, collected)
    /\ UNCHANGED <<handler, args, disk, service, requests, locals>>

DeployNext ==
    \/ DD_OpenTemplate
    \/ DD_LoadTemplate
    \/ DD_Override
    \/ DD_Return
    \/ D_OpenSystemPrompt
    \/ D_ReadSystemPrompt
    \/ D_OpenRetrievalPrompt
    \/ D_ReadRetrievalPrompt
    \/ D_Tools
    \/ D_PostAssistants
    \/ D_Files
    \/ D_OpenFile
    \/ D_PostIngest
    \/ D_PostThreads
    \/ D_Return

-----------------------------------------------------------------------------
(* Claims about deploy_agent *)

\* The agent deploy_agent is called with.
TheAgent ==
    IF handler = "deploy_agent" THEN args.agent
    ELSE OverriddenAgent(disk.template_agent, args)

\* deploy_agent has been entered.
InDeployAgent ==
    /\ Deploying
    /\ pc \notin {"dd_open_template", "dd_load_template", "dd_override"}
    /\ pc = "raised" =>
          result.at \notin {"dd_open_template", "dd_load_template", "dd_override"}

NamesNoReadableFile(path) == disk.text[path] \in {"missing", "denied"}

\* C3: a system-prompt that names no readable file is itself the
\* system_message of the creation payload, and deployment goes on past it;
\* a retrieval-prompt that names no readable file makes the call fail, with
\* no request issued and no identifiers returned.
C3_PromptResolutionAsymmetric ==
    InDeployAgent =>
      /\ NamesNoReadableFile(TheAgent.system_prompt) =>
            /\ pc = "raised" =>
                  result.at \notin {"d_open_system_prompt", "d_read_system_prompt"}
            /\ pc \notin {"d_open_system_prompt", "raised"} =>
                  locals.system_prompt = Literal(TheAgent.system_prompt)
            /\ requests # <<>> =>
                  requests[1].body.configurable.system_message
                      = Literal(TheAgent.system_prompt)
      /\ NamesNoReadableFile(TheAgent.retrieval_prompt) =>
            /\ requests = <<>>
            /\ result.kind # "returned"
            /\ pc \notin {"d_open_system_prompt", "d_read_system_prompt",
                          "d_open_retrieval_prompt"} =>
                  /\ pc = "raised"
                  /\ locals.retrieval_prompt # Literal(TheAgent.retrieval_prompt)

C3_Witness ==
    /\ handler = "deploy_agent" /\ pc = "done"
    /\ disk.text[TheAgent.system_prompt] = "missing"
    /\ requests[1].body.configurable.system_message = Literal("runbook.md")
    /\ result.kind = "returned"

FilesOf(agent) == IF agent.has_files THEN agent.files ELSE <<>>

\* The k-th request of a complete deployment: which endpoint, for which
\* assistant, with which file.
ExpectedPath(k) ==
    IF k = 1 THEN "/assistants"
    ELSE IF k <= Len(FilesOf(TheAgent)) + 1 THEN "/ingest" ELSE "/threads"

\* C7: the requests issued are a prefix of POST /assistants, one POST
\* /ingest per file in list order, POST /threads with the assistant_id the
\* first call returned; none is issued before the prompts are resolved,
\* none is repeated and none deletes; when thread creation fails after the
\* assistant was created, the assistant stays in the service with no thread
\* and the caller gets no identifiers.
C7_RequestsArePrefix ==
    Deploying =>
      /\ Len(requests) <= Len(FilesOf(TheAgent)) + 2
      /\ \A k \in 1..Len(requests) :
            /\ requests[k].method = "POST"
            /\ requests[k].path = ExpectedPath(k)
            /\ k >= 2 =>
                  /\ NewAssistantId \in service.assistants
                  /\ requests[k].id = NewAssistantId
            /\ requests[k].path = "/ingest" =>
                  requests[k].body = FilesOf(TheAgent)[k - 1]
      /\ requests # <<>> =>
            /\ disk.text[TheAgent.retrieval_prompt] = "text"
            /\ locals.retrieval_prompt = FileText(TheAgent.retrieval_prompt)
            /\ locals.system_prompt \in
                  {Literal(TheAgent.system_prompt), FileText(TheAgent.system_prompt)}
            /\ requests[1].body =
                  AssistantPayload(TheAgent, locals.system_prompt,
                                   locals.retrieval_prompt, locals.tools)
      /\ (pc = "raised" /\ result.at = "d_post_threads") =>
            /\ service.assistants = {NewAssistantId}
            /\ service.threads = {}
            /\ result.kind = "raised"
            /\ requests[Len(requests)].path = "/threads"

C7_Witness ==
    /\ handler = "deploy_agent" /\ pc = "raised" /\ result.at = "d_post_threads"
    /\ Len(requests) = 4
    /\ requests[2].body # requests[3].body
    /\ service.assistants = {NewAssistantId}

\* C8 as stated: a failure while uploading one of the files (it cannot be
\* opened, or the /ingest request fails) is not fatal: deploy_agent never
\* ends with the exception of an upload.
C8_UploadFailureNotFatal ==
    (Deploying /\ pc = "raised") =>
        result.at \notin {"d_open_file", "d_post_ingest"}

\* C10 as stated: when a handler has ended, normally or by an error, no
\* file handle it opened is still open.
C10_NoHandleLeftOpen ==
    Terminated => openHandles = {}

-----------------------------------------------------------------------------
(* get_latest_thread: lines 280-334 *)

\* Text is a sequence of characters.
Xs(n) == [i \in 1..n |-> "x"]

Min(a, b) == IF a <= b THEN a ELSE b

\* content[:100] at line 326
MaxResponseChars == 100

AIPrefix == <<"A", "I", ":", " ">>
HumanPrefix == <<"H", "u", "m", "a", "n", ":", " ">>
ToolPrefix == <<"T", "o", "o", "l", ":", " ">>
ResponsePrefix ==
    <<"\n", " ", " ", "R", "e", "s", "p", "o", "n", "s", "e", ":", " ">>
Separator == <<"\n", "\n">>
DidNotFindThreads ==
    <<"D", "i", "d", " ", "n", "o", "t", " ", "f", "i", "n", "d", " ",
      "t", "h", "r", "e", "a", "d", "s">>

\* The messages of a history: one of each shape the loop tells apart, and
\* tool messages below, at and above the length the response is cut at.
Message(type, name, content, tool_calls) ==
    [type |-> type, name |-> name, content |-> content, tool_calls |-> tool_calls]

Messages ==
    {Message("human", <<>>, <<"h", "i">>, <<>>),
     Message("ai", <<>>, <<"y", "o">>, <<>>),
     Message("ai", <<>>, <<>>, <<"call_1">>),
     Message("system", <<>>, <<"s">>, <<>>)}
    \cup {Message("tool", <<"g", "o">>, Xs(n), <<>>) :
            n \in {1, MaxResponseChars, MaxResponseChars + 1}}

\* updated_at as the service writes it: a clock reading and the suffix that
\* says where the clock stands ("Z", an offset, or nothing).
Timestamps == [clock : 1..2, suffix : {"Z", "+02:00", ""}]

\* line 301: datetime.fromisoformat(s.replace('Z', '+00:00')): an aware
\* datetime with the offset of the suffix, a naive one without a suffix.
fromisoformat(ts) ==
    [clock |-> ts.clock,
     aware |-> ts.suffix # "",
     utcoffset |-> CASE ts.suffix = "+02:00" -> 2 [] OTHER -> 0]

\* A slip: the clock readings are compared, as the strings would be.
DatetimeKeyOfClock(dt) == dt.clock

\* The order of two datetimes of one kind: aware ones by their instant,
\* naive ones by their clock.
DatetimeKey(dt) == dt.clock - dt.utcoffset

\* Comparing an aware datetime with a naive one is a TypeError.
Comparable(a, b) == a.aware = b.aware

ThreadIds == <<"t1", "t2", "t3", "t4", "t5">>
AssistantIds == {"asst-1", "asst-2"}

\* The thread lists GET /threads/ answers with.
ThreadLists ==
    {[k \in 1..Len(l) |->
        [assistant_id |-> l[k].assistant_id, thread_id |-> ThreadIds[k],
         updated_at |-> l[k].updated_at]] :
     l \in SeqsUpTo([assistant_id : AssistantIds, updated_at : Timestamps],
                    MaxThreads)}

OneThread ==
    {<<[assistant_id |-> "asst-1", thread_id |-> "t1",
        updated_at |-> [clock |-> 1, suffix |-> "Z"]]>>}

OneHistory ==
    {<<Message("human", <<>>, <<"h", "i">>, <<>>),
       Message("ai", <<>>, <<"y", "o">>, <<>>)>>}

\* What the service answers to the two GETs.
GetOutcomes == {"ok", "not_json", "connection_error"}
HistoryOutcomes == {"ok", "no_snapshot", "not_json", "connection_error"}

\* json_data[0] of an empty history list is an IndexError.
HistoryError(outcome) ==
    IF outcome = "no_snapshot" THEN "IndexError" ELSE AnswerError(outcome)

\* max(assistant_threads, key=...): the first of the greatest.
RECURSIVE MaxFrom(_, _, _)
MaxFrom(threads, k, best) ==
    IF k > Len(threads) THEN best
    ELSE MaxFrom(threads, k + 1,
                 IF DatetimeKey(threads[k].updated_at)
                        > DatetimeKey(best.updated_at)
                   THEN threads[k] ELSE best)

\* max compares its first item with the second, and the greater of them with
\* the next: it meets an aware and a naive datetime iff the list has both.
MaxRaises(threads) ==
    \E j, k \in 1..Len(threads) :
        ~Comparable(threads[j].updated_at, threads[k].updated_at)

\* A slip: the content is not cut.
ResponseExcerptWhole(content) == content

\* lines 321-326: what one message adds to summary
ResponseExcerpt(content) == SubSeq(content, 1, Min(Len(content), MaxResponseChars))

SummaryOf(message) ==
    IF message.type = "ai" /\ message.tool_calls = <<>>
      THEN <<AIPrefix \o message.content>>
    ELSE IF message.type = "human"
      THEN <<HumanPrefix \o message.content>>
    ELSE IF message.type = "tool"
      THEN <<ToolPrefix \o message.name \o ResponsePrefix
                \o ResponseExcerpt(message.content)>>
    ELSE <<>>

\* "\n\n".join(summary)
RECURSIVE Join(_)
Join(lines) ==
    IF lines = <<>> THEN <<>>
    ELSE IF Len(lines) = 1 THEN lines[1]
    ELSE lines[1] \o Separator \o Join(Tail(lines))

InitGetLatestThread ==
    /\ handler = "get_latest_thread"
    /\ pc = "lt_get_threads"
    /\ args \in [assistant_id : AssistantIds]
    /\ disk = <<>>
    /\ \/ service \in [threads : ThreadLists, history : OneHistory]
       \/ service \in [threads : OneThread,
                       history : SeqsUpTo(Messages, MaxMessages)]
    /\ requests = <<>>
    /\ openHandles = {}
    /\ locals = [threads |-> <<>>, assistant_threads |-> <<>>,
                 thread_id |-> "", messages |-> <<>>, summary |-> <<>>, i |-> 1]
    /\ result = NoResult

\* lines 292-293: GET /threads/
LT_GetThreads ==
    /\ handler = "get_latest_thread" /\ pc = "lt_get_threads"
    /\ requests' = Append(requests,
          [method |-> "GET", path |-> "/threads/", id |-> "", body |-> <<>>])
    /\ \E outcome \in GetOutcomes :
          IF AnswerError(outcome) = ""
            THEN /\ locals' = [locals EXCEPT !.threads = service.threads]
                 /\ pc' = "lt_filter"
                 /\ UNCHANGED result
            ELSE Raise(AnswerError(outcome)) /\ UNCHANGED locals
    /\ UNCHANGED <<handler, args, disk, service, openHandles>>

IsOfAssistant(thread, assistant_id) == thread.assistant_id = assistant_id

\* lines 296-298
LT_Filter ==
    /\ handler = "get_latest_thread" /\ pc = "lt_filter"
    /\ LET OfAssistant(thread) == IsOfAssistant(thread, args.assistant_id)
           assistant_threads == SelectSeq(locals.threads, OfAssistant)
       IN  /\ locals' = [locals EXCEPT !.assistant_threads = assistant_threads]
           /\ pc' = IF assistant_threads # <<>> THEN "lt_parse" ELSE "lt_none"
    /\ UNCHANGED <<handler, args, disk, service, requests, openHandles, result>>

\* lines 300-301
LT_Parse ==
    /\ handler = "get_latest_thread" /\ pc = "lt_parse"
    /\ locals' = [locals EXCEPT !.assistant_threads =
          [k \in 1..Len(@) |->
              [@[k] EXCEPT !.updated_at = fromisoformat(@)]]]
    /\ pc' = "lt_max"
    /\ UNCHANGED <<handler, args, disk, service, requests, openHandles, result>>

\* lines 304-306
LT_Max ==
    /\ handler = "get_latest_thread" /\ pc = "lt_max"
    /\ IF MaxRaises(locals.assistant_threads)
         THEN Raise("TypeError") /\ UNCHANGED locals
         ELSE /\ locals' = [locals EXCEPT !.thread_id =
                    MaxFrom(locals.assistant_threads, 2,
                            locals.assistant_threads[1]).thread_id]
              /\ pc' = "lt_get_history"
              /\ UNCHANGED result
    /\ UNCHANGED <<handler, args, disk, service, requests, openHandles>>

\* lines 309-315: GET /threads/{thread_id}/history and its first snapshot
LT_GetHistory ==
    /\ handler = "get_latest_thread" /\ pc = "lt_get_history"
    /\ requests' = Append(requests,
          [method |-> "GET", path |-> "/threads/{thread_id}/history",
           id |-> locals.thread_id, body |-> <<>>])
    /\ \E outcome \in HistoryOutcomes :
          IF HistoryError(outcome) = ""
            THEN /\ locals' = [locals EXCEPT !.messages = service.history,
                                             !.summary = <<>>, !.i = 1]
                 /\ pc' = "lt_for"
                 /\ UNCHANGED result
            ELSE Raise(HistoryError(outcome)) /\ UNCHANGED locals
    /\ UNCHANGED <<handler, args, disk, service, openHandles>>

\* lines 320-326: one iteration of the loop over messages
LT_For ==
    /\ handler = "get_latest_thread" /\ pc = "lt_for"
    /\ locals.i <= Len(locals.messages)
    /\ locals' = [locals EXCEPT
          !.summary = @ \o SummaryOf(locals.messages[locals.i]),
          !.i = @ + 1]
    /\ UNCHANGED <<handler, pc, args, disk, service, requests, openHandles,
                   result>>

\* lines 329-332
LT_Return ==
    /\ handler = "get_latest_thread" /\ pc = "lt_for"
    /\ locals.i > Len(locals.messages)
    /\ pc' = "done"
    /\ result' = Returned(Join(locals.summary))
    /\ UNCHANGED <<handler, args, disk, service, requests, openHandles, locals>>

\* line 334
LT_ReturnNone ==
    /\ handler = "get_latest_thread" /\ pc = "lt_none"
    /\ pc' = "done"
    /\ result' = Returned(DidNotFindThreads)
    /\ UNCHANGED <<handler, args, disk, service, requests, openHandles, locals>>

GetLatestThreadNext ==
    \/ LT_GetThreads
    \/ LT_Filter
    \/ LT_Parse
    \/ LT_Max
    \/ LT_GetHistory
    \/ LT_For
    \/ LT_Return
    \/ LT_ReturnNone

-----------------------------------------------------------------------------
(* Claims about get_latest_thread *)

\* The list of threads has been fetched.
ThreadsFetched ==
    /\ handler = "get_latest_thread"
    /\ pc # "lt_get_threads"
    /\ pc = "raised" => result.at # "lt_get_threads"

\* The places of the listed threads that belong to the assistant asked for.
ThreadsOfAssistant ==
    {k \in 1..Len(service.threads) :
        service.threads[k].assistant_id = args.assistant_id}

\* The instant an updated_at string denotes, in hours: the clock reading
\* less the offset of its suffix.
Instant(ts) == ts.clock - (IF ts.suffix = "+02:00" THEN 2 ELSE 0)

IsHistoryRequest(r) == r.path = "/threads/{thread_id}/history"

\* C4: once the threads are fetched, get_latest_thread returns "Did not find
\* threads" iff no listed thread has the assistant_id asked for; otherwise
\* the one thread whose history it fetches has that assistant_id and an
\* updated_at no earlier than that of any other thread of the assistant,
\* wherever it stands in the list.
C4_LatestThreadOfAssistant ==
    ThreadsFetched =>
      /\ Terminated =>
            ((result.kind = "returned" /\ result.value = DidNotFindThreads)
                <=> ThreadsOfAssistant = {})
      /\ ThreadsOfAssistant = {} => pc # "raised"
      /\ Cardinality({r \in 1..Len(requests) : IsHistoryRequest(requests[r])}) <= 1
      /\ \A r \in 1..Len(requests) :
            IsHistoryRequest(requests[r]) =>
                \E k \in ThreadsOfAssistant :
                    /\ service.threads[k].thread_id = requests[r].id
                    /\ \A j \in ThreadsOfAssistant :
                          Instant(service.threads[j].updated_at)
                              <= Instant(service.threads[k].updated_at)

\* The latest thread of the assistant stands second and has the earlier
\* clock reading; a thread of another assistant is later still.
C4_Witness ==
    /\ handler = "get_latest_thread" /\ pc = "done"
    /\ Len(service.threads) = 3 /\ ThreadsOfAssistant = {1, 2}
    /\ service.threads[1].updated_at = [clock |-> 2, suffix |-> "+02:00"]
    /\ service.threads[2].updated_at = [clock |-> 1, suffix |-> "Z"]
    /\ service.threads[3].updated_at = [clock |-> 2, suffix |-> "Z"]
    /\ requests[2].id = "t2"

Emitted(m) ==
    \/ m.type = "ai" /\ m.tool_calls = <<>>
    \/ m.type = "human"
    \/ m.type = "tool"

FirstChars(text, n) == [i \in 1..Min(Len(text), n) |-> text[i]]

LineOf(m) ==
    CASE m.type = "ai"    -> AIPrefix \o m.content
      [] m.type = "human" -> HumanPrefix \o m.content
      [] m.type = "tool"  -> ToolPrefix \o m.name \o ResponsePrefix
                                \o FirstChars(m.content, 100)

RECURSIVE JoinedUpTo(_, _)
JoinedUpTo(lines, n) ==
    IF n = 0 THEN <<>>
    ELSE IF n = 1 THEN lines[1]
    ELSE JoinedUpTo(lines, n - 1) \o <<"\n", "\n">> \o lines[n]

Transcript(messages) ==
    LET kept == SelectSeq(messages, Emitted)
    IN  JoinedUpTo([k \in 1..Len(kept) |-> LineOf(kept[k])], Len(kept))

\* C5: the transcript returned is the "\n\n"-join, in message order, of one
\* line for each ai message without tool calls ("AI: <content>"), each
\* human message ("Human: <content>") and each tool message ("Tool:
\* <name>\n  Response: <first 100 characters of content>"), and of nothing
\* for any other message.
C5_TranscriptRendering ==
    (handler = "get_latest_thread" /\ pc = "done" /\ ThreadsOfAssistant # {})
        => /\ result.value = Transcript(service.history)
           /\ \A k \in 1..Len(service.history) :
                 service.history[k].type = "tool" =>
                    Len(result.value) <=
                        Len(Transcript(
                            [service.history EXCEPT ![k].content = <<>>])) + 100

C5_Witness ==
    /\ handler = "get_latest_thread" /\ pc = "done"
    /\ Len(service.history) = 2
    /\ service.history[1].type = "tool"
    /\ Len(service.history[1].content) = 101
    /\ service.history[2].type = "human"
    /\ Len(result.value) = 6 + 2 + 13 + 100 + 2 + 7 + 2

-----------------------------------------------------------------------------
(* update_agent_runbook: lines 375-408 *)

SystemMessageKey == "type==agent/system_message"
ConfigurableKeys ==
    {SystemMessageKey, "type==agent/tools", "type==agent/description"}
Runbooks == {"runbook 1", "runbook 2"}

\* config["configurable"] of an assistant: some of the keys, each with one
\* of two values.
Configurables ==
    UNION {[D -> {"runbook 1", "v"}] : D \in SUBSET ConfigurableKeys}

\* The JSON documents GET /assistants/{id} answers with: an assistant, an
\* assistant whose config has no "configurable", or an error document.
AssistantDocs ==
    [kind : {"assistant"}, name : {"Tutor"}, public : BOOLEAN,
     config : [configurable : Configurables, recursion_limit : {"25"}]]
    \cup [kind : {"assistant"}, name : {"Tutor"}, public : BOOLEAN,
          config : [recursion_limit : {"25"}]]
    \cup [kind : {"error"}, detail : {"Assistant not found"}]

\* What PUT /assistants/{id} answers with: a status, and a body that is
\* JSON or is not (an empty body, an HTML error page).
PutStatuses == {200, 404, 422, 500}
PutResponses ==
    [status_code : PutStatuses,
     body : {[json |-> TRUE, text |-> "{detail}"],
             [json |-> FALSE, text |-> "Internal Server Error"]}]

\* f with f[k] = v, k a key of f or a new one: d[k] = v on a dict
SetItem(f, k, v) ==
    [x \in DOMAIN f \cup {k} |-> IF x = k THEN v ELSE f[x]]

\* A slip: configurable is built anew with the runbook alone.
SetRunbookAlone(config, new_runbook) ==
    [config EXCEPT !.configurable = [k \in {SystemMessageKey} |-> new_runbook]]

\* line 395: config['configurable']['type==agent/system_message'] = new_runbook
SetRunbook(config, new_runbook) ==
    [config EXCEPT !.configurable = SetItem(@, SystemMessageKey, new_runbook)]

\* lines 397-401
RunbookPayload(name, config, public) ==
    [name |-> name, config |-> config, public |-> public]

\* lines 405-408: the string returned for an answer whose body is read
SuccessText == <<"Successfully updated!">>
FailureText(response) ==
    <<"Failed with status code: ", response.status_code,
      ", message is ", response.body.text>>

InitUpdateAgentRunbook ==
    /\ handler = "update_agent_runbook"
    /\ pc = "ur_get"
    /\ args \in [assistant_id : AssistantIds, new_runbook : Runbooks]
    /\ disk = <<>>
    /\ service \in [assistant : AssistantDocs]
    /\ requests = <<>>
    /\ openHandles = {}
    /\ locals = [resp |-> <<>>, name |-> "", public |-> FALSE, config |-> <<>>,
                 response |-> <<>>]
    /\ result = NoResult

\* line 388: GET /assistants/{assistant_id}
UR_Get ==
    /\ handler = "update_agent_runbook" /\ pc = "ur_get"
    /\ requests' = Append(requests,
          [method |-> "GET", path |-> "/assistants/{assistant_id}",
           id |-> args.assistant_id, body |-> <<>>])
    /\ \E outcome \in GetOutcomes :
          IF outcome = "connection_error"
            THEN Raise("ConnectionError") /\ UNCHANGED locals
            ELSE /\ locals' = [locals EXCEPT !.resp =
                        [json |-> outcome = "ok", doc |-> service.assistant]]
                 /\ pc' = "ur_read"
                 /\ UNCHANGED result
    /\ UNCHANGED <<handler, args, disk, service, openHandles>>

\* lines 390-393: resp.json()['name'], ['public'], ['config']
UR_Read ==
    /\ handler = "update_agent_runbook" /\ pc = "ur_read"
    /\ IF ~locals.resp.json
         THEN Raise("JSONDecodeError") /\ UNCHANGED locals
       ELSE IF locals.resp.doc.kind # "assistant"
         THEN Raise("KeyError") /\ UNCHANGED locals
       ELSE /\ locals' = [locals EXCEPT !.name = locals.resp.doc.name,
                                        !.public = locals.resp.doc.public,
                                        !.config = locals.resp.doc.config]
            /\ pc' = "ur_set"
            /\ UNCHANGED result
    /\ UNCHANGED <<handler, args, disk, service, requests, openHandles>>

\* line 395
UR_SetRunbook ==
    /\ handler = "update_agent_runbook" /\ pc = "ur_set"
    /\ IF "configurable" \in DOMAIN locals.config
         THEN /\ locals' = [locals EXCEPT
                    !.config = SetRunbook(@, args.new_runbook)]
              /\ pc' = "ur_put"
              /\ UNCHANGED result
         ELSE Raise("KeyError") /\ UNCHANGED locals
    /\ UNCHANGED <<handler, args, disk, service, requests, openHandles>>

\* lines 397-403: PUT /assistants/{assistant_id}; the service stores the
\* payload when it answers 200
UR_Put ==
    /\ handler = "update_agent_runbook" /\ pc = "ur_put"
    /\ LET payload == RunbookPayload(locals.name, locals.config, locals.public)
       IN  /\ requests' = Append(requests,
                  [method |-> "PUT", path |-> "/assistants/{assistant_id}",
                   id |-> args.assistant_id, body |-> payload])
           /\ \/ /\ Raise("ConnectionError")
                 /\ UNCHANGED <<locals, service>>
              \/ \E response \in PutResponses :
                    /\ locals' = [locals EXCEPT !.response = response]
                    /\ service' =
                          IF response.status_code = 200
                            THEN [service EXCEPT !.assistant =
                                    [kind |-> "assistant", name |-> payload.name,
                                     public |-> payload.public,
                                     config |-> payload.config]]
                            ELSE service
                    /\ pc' = "ur_return"
                    /\ UNCHANGED result
    /\ UNCHANGED <<handler, args, disk, openHandles>>

\* lines 405-408: response.json() is called on the other branch only
UR_Return ==
    /\ handler = "update_agent_runbook" /\ pc = "ur_return"
    /\ IF locals.response.status_code = 200
         THEN pc' = "done" /\ result' = Returned(SuccessText)
       ELSE IF locals.response.body.json
         THEN pc' = "done" /\ result' = Returned(FailureText(locals.response))
       ELSE Raise("JSONDecodeError")
    /\ UNCHANGED <<handler, args, disk, service, requests, openHandles, locals>>

UpdateAgentRunbookNext ==
    \/ UR_Get
    \/ UR_Read
    \/ UR_SetRunbook
    \/ UR_Put
    \/ UR_Return

-----------------------------------------------------------------------------
(* Claims about update_agent_runbook *)

PutAnswered ==
    /\ handler = "update_agent_runbook"
    /\ Terminated
    /\ Len(requests) = 2
    /\ result.kind = "raised" => result.at = "ur_return"

\* C6 as stated: when the PUT is answered with a status other than 200,
\* whatever the body, update_agent_runbook does not raise: it returns the
\* string with the status code and the parsed body; it returns the success
\* string only for status 200.
C6_NeverRaisesOnNon200 ==
    PutAnswered =>
      /\ locals.response.status_code # 200 =>
            /\ result.kind = "returned"
            /\ result.value = FailureText(locals.response)
      /\ (result.kind = "returned" /\ result.value = SuccessText) =>
            locals.response.status_code = 200

\* The assistant as GET answered it.
Fetched == locals.resp.doc

\* C9: the one PUT goes to the assistant_id that was fetched, with the
\* fetched name and public, and with the fetched config in which
\* configurable["type==agent/system_message"] is new_runbook and every
\* other key of config and of config.configurable is as fetched.
C9_OnlyRunbookChanges ==
    handler = "update_agent_runbook" =>
      /\ Cardinality({r \in 1..Len(requests) : requests[r].method = "PUT"}) <= 1
      /\ \A r \in 1..Len(requests) :
            requests[r].method = "PUT" =>
              LET put == requests[r].body IN
              /\ r = 2 /\ requests[1].method = "GET"
              /\ requests[r].id = requests[1].id
              /\ requests[r].id = args.assistant_id
              /\ DOMAIN put = {"name", "config", "public"}
              /\ put.name = Fetched.name
              /\ put.public = Fetched.public
              /\ DOMAIN put.config = DOMAIN Fetched.config
              /\ \A k \in DOMAIN Fetched.config \ {"configurable"} :
                    put.config[k] = Fetched.config[k]
              /\ DOMAIN put.config.configurable =
                    DOMAIN Fetched.config.configurable \cup {SystemMessageKey}
              /\ put.config.configurable[SystemMessageKey] = args.new_runbook
              /\ \A k \in DOMAIN Fetched.config.configurable \ {SystemMessageKey} :
                    put.config.configurable[k] = Fetched.config.configurable[k]

C9_Witness ==
    /\ handler = "update_agent_runbook" /\ pc = "done"
    /\ DOMAIN Fetched.config.configurable = ConfigurableKeys
    /\ Fetched.config.configurable[SystemMessageKey] = "runbook 1"
    /\ args.new_runbook = "runbook 2"
    /\ Fetched.public
    /\ requests[2].body.config.configurable[SystemMessageKey] = "runbook 2"
    /\ result.value = SuccessText

-----------------------------------------------------------------------------

Init ==
    \/ InitGetActions
    \/ InitDeployAgent
    \/ InitDeployAgentToDesktop
    \/ InitGetLatestThread
    \/ InitUpdateAgentRunbook

Next ==
    \/ GetActionsNext
    \/ DeployNext
    \/ GetLatestThreadNext
    \/ UpdateAgentRunbookNext

Spec == Init /\ [][Next]_vars

=============================================================================
